---- MODULE Spec2Model ----
(***************************************************************************)
(* Model of the INFOTECH landing page: the App shell (src/App.tsx), the    *)
(* UIOverlay view-state (src/components/UIOverlay.tsx) and the animated    *)
(* 3D scene (ArchitectScene: src/unnamed/part_000 and part_001).           *)
(*                                                                         *)
(* The repository carries two definitions of App (with and without the     *)
(* ErrorBoundary) and two versions of the scene file; which one is built   *)
(* is fixed at start-up (appVersion, sceneVersion).                        *)
(*                                                                         *)
(* Real numbers are fixed-point integers in thousandths (1.0 = 1000);      *)
(* elapsedTime is in milliseconds.  Strings that the code transforms       *)
(* (menu labels) are sequences of character codes.                         *)
(***************************************************************************)
EXTENDS Integers, Sequences, FiniteSets, TLC

\* ------------------------------------------------------------------------
\* Bounds of the model
\* ------------------------------------------------------------------------
MaxFrames == 3          \* frames rendered per page load
WindowSeconds == 50     \* length of the window over which an unbounded run of
                        \* frames is followed, after which it is followed anew

\* Values Math.random() is drawn from, in thousandths of [0,1)
Rand == {120, 880}
\* Time between two display refreshes, in milliseconds: a prompt refresh
\* and one delayed by a busy main thread
FrameDeltas == {250, 1180}
\* The same for an unbounded run of frames: a prompt refresh and a late one
SteadyDeltas == {250, 1000}

\* ------------------------------------------------------------------------
\* Strings
\* ------------------------------------------------------------------------
HOME == <<72, 79, 77, 69>>
PROJECTS == <<80, 82, 79, 74, 69, 67, 84, 83>>
TOOLS == <<84, 79, 79, 76, 83>>
CONTACT == <<67, 79, 78, 84, 65, 67, 84>>

home == <<104, 111, 109, 101>>
projects == <<112, 114, 111, 106, 101, 99, 116, 115>>
tools == <<116, 111, 111, 108, 115>>
contact == <<99, 111, 110, 116, 97, 99, 116>>

menuItems == <<HOME, PROJECTS, TOOLS, CONTACT>>

MenuLabels == {menuItems[i] : i \in DOMAIN menuItems}

\* the label passed on as it is
toLowerCaseIdentity(s) == s

\* String.prototype.toLowerCase on ASCII text: A..Z (65..90) -> a..z
toLowerCase(s) == [i \in DOMAIN s |-> IF s[i] \in 65..90 THEN s[i] + 32 ELSE s[i]]

\* The panels of <main>: each is rendered iff its guard on activeSection holds
mainPanels(section) ==
    (IF section = home THEN {"home"} ELSE {})
      \cup (IF section = projects THEN {"projects"} ELSE {})
      \cup (IF section = tools THEN {"tools"} ELSE {})
      \cup (IF section = contact THEN {"contact"} ELSE {})

\* ------------------------------------------------------------------------
\* Fixed-point arithmetic
\* ------------------------------------------------------------------------
\* sin at the midpoints of twelve sectors of the circle (15, 45, 75 degrees..)
SinTable == <<259, 707, 966, 966, 707, 259, -259, -707, -966, -966, -707, -259>>

\* Math.sin of an angle x >= 0 given in thousandths of a radian; the result
\* is in thousandths and has the sign of the real sine (2*pi = 6.283)
Sin(x) ==
    LET r == x % 6283
    IN  IF r = 0 THEN 0 ELSE SinTable[((r * 12) \div 6283) + 1]

\* ------------------------------------------------------------------------
\* State
\* ------------------------------------------------------------------------
VARIABLES
    appVersion,       \* "boundary": App wrapped in ErrorBoundary; "plain": not
    sceneVersion,     \* "part_000" or "part_001": the scene file that is built
    hasTouch,         \* 'ontouchstart' in window
    innerWidthNarrow, \* window.innerWidth < 768
    rootMounted,      \* the React root still shows a tree
    hasError,         \* ErrorBoundary state
    activeSection,    \* App state
    isDarkMode,       \* App state
    mobileMenuOpen,   \* UIOverlay state
    toggleThemeSees,  \* isDarkMode as closed over by toggleTheme at last render
    hamburgerSees,    \* mobileMenuOpen as closed over by the hamburger handler
    isMobile,         \* ArchitectScene's isMobile at its last render
    blade,            \* the memoised values of a server blade
    light,            \* the blade's tracked BlinkingLight instances, by slot
    pulse,            \* a floor PulsePacket: its props and its mesh
    groupMounted,     \* Composition's groupRef.current is set
    groupRotationY,   \* Composition group rotation.y
    elapsedTime,      \* state.clock.elapsedTime in milliseconds
    frameCount,       \* frames rendered since the page was loaded
    lastEv,           \* history: the last event handled
    instancesBefore,  \* history: scene instances present before the last event
    toggleHistory,    \* history: the last consecutive theme-toggle clicks (at
                      \* most two), each with the view-state before it
    clicksApplied     \* history: the view-state obtained by applying every
                      \* click since the page load, in order, to the defaults

shellVars == <<appVersion, sceneVersion, hasTouch, innerWidthNarrow, rootMounted, hasError>>
viewVars == <<activeSection, isDarkMode, mobileMenuOpen, toggleThemeSees, hamburgerSees>>
sceneVars == <<isMobile, blade, light, pulse, groupMounted, groupRotationY>>
clockVars == <<elapsedTime, frameCount>>
historyVars == <<lastEv, instancesBefore, toggleHistory, clicksApplied>>
vars == <<shellVars, viewVars, sceneVars, clockVars, historyVars>>

\* The tracked BlinkingLight slots of the blade
Slots == {1, 4}

\* The UI view-state as the specification names it
View == [section |-> activeSection,
         theme |-> IF isDarkMode THEN "dark" ELSE "light",
         menuOpen |-> mobileMenuOpen]

\* the boundary rendering its children whatever its state
uiMountedDespiteError == rootMounted

\* The scene and the overlay are on screen
uiMounted == rootMounted /\ ~hasError

\* ------------------------------------------------------------------------
\* Scene: construction
\* ------------------------------------------------------------------------
\* Math.random() * 100 (BlinkingLight offset)
lightOffset(r) == r * 100
\* the speed rounded down to a whole number
lightSpeedFloored(r) == ((800 + (r * 400) \div 1000) \div 1000) * 1000

\* 0.8 + Math.random() * 0.4 (greenLightSpeed)
lightSpeed(r) == 800 + (r * 400) \div 1000
\* 0.5 + Math.random() * 0.5 (PulsePacket speed prop)
pulseSpeed(r) == 500 + (r * 500) \div 1000
\* Math.random() * 10 (PulsePacket offset prop)
pulseOffset(r) == r * 10

\* The nine floor paths, start and end in thousandths: three per rack, to
\* the centre rack (x = 0), the left (x = -1.25) and the right (x = 1.25)
paths ==
    LET toRack(x) == [i \in 1..3 |->
            [start |-> [x |-> x + ((i - 1) * 200 - 200), y |-> -1240, z |-> 6000],
             end |-> [x |-> x, y |-> -1240, z |-> 1000]]]
    IN  toRack(0) \o toRack(-1250) \o toRack(1250)

\* A BlinkingLight right after it is mounted: mesh scale 1, material opacity
\* 1, colour as given, and a pointLight of intensity 1.5 unless isMobile.
\* rate is the factor of the last sine test of its useFrame (0: none yet).
NewLight(speed, offset, point) ==
    [mounted |-> TRUE, speed |-> speed, offset |-> offset,
     firstSpeed |-> speed, firstOffset |-> offset,
     scale |-> 1000, opacity |-> 1000, bright |-> FALSE,
     hasPoint |-> point, pointIntensity |-> IF point THEN 1500 ELSE 0,
     rate |-> 0]

NoLight ==
    [mounted |-> FALSE, speed |-> 0, offset |-> 0, firstSpeed |-> 0, firstOffset |-> 0,
     scale |-> 0, opacity |-> 0, bright |-> FALSE, hasPoint |-> FALSE,
     pointIntensity |-> 0, rate |-> 0]

\* A PulsePacket right after it is mounted: mesh at the origin, opacity 1
NewPulse(speed, offset) ==
    [mounted |-> TRUE, speed |-> speed, offset |-> offset,
     firstSpeed |-> speed, firstOffset |-> offset,
     progress |-> 0, position |-> [x |-> 0, y |-> 0, z |-> 0], opacity |-> 1000]

NoPulse ==
    [mounted |-> FALSE, speed |-> 0, offset |-> 0, firstSpeed |-> 0, firstOffset |-> 0,
     progress |-> 0, position |-> [x |-> 0, y |-> 0, z |-> 0], opacity |-> 0]

NoBlade == [greenLightSpeed |-> 0, hasLights |-> FALSE]

\* window.innerWidth < 768 || 'ontouchstart' in window (part_000 only)
detectMobile(sv, narrow, touch) == sv = "part_000" /\ (narrow \/ touch)

\* ServerBlade of part_000 at mount: its link lights are always present.
\* Slot 1 is the green link light (the amber one is the same component with
\* its own memoised speed and is not tracked).
ServerBlade000(mobile) ==
    { [blade |-> [greenLightSpeed |-> lightSpeed(rg), hasLights |-> TRUE],
       light |-> [s \in Slots |->
                    IF s = 1 THEN NewLight(lightSpeed(rg), lightOffset(o1), ~mobile)
                    ELSE NoLight]]
      : rg \in Rand, o1 \in Rand }

\* The fourth status light of part_001: rendered iff Math.random() > 0.8
extraLight(rx) == rx > 800

\* ServerBlade of part_001 at mount: status lights of speed 4, 3 and 6 iff
\* hasLights (Math.random() > 0.2), and a fourth of speed 8 on a further draw.
\* Slot 1 is the first status light, slot 4 the fourth.
ServerBlade001 ==
    { [blade |-> [greenLightSpeed |-> 0, hasLights |-> rh > 200],
       light |-> [s \in Slots |->
                    IF ~(rh > 200) THEN NoLight
                    ELSE IF s = 1 THEN NewLight(4000, lightOffset(o1), FALSE)
                    ELSE IF extraLight(rx) THEN NewLight(8000, lightOffset(o4), FALSE)
                    ELSE NoLight]]
      : rh \in Rand, rx \in Rand, o1 \in Rand, o4 \in Rand }

\* The scenes a page load can build
FreshScene(sv, mobile) ==
    { [blade |-> b.blade, light |-> b.light, pulse |-> NewPulse(pulseSpeed(rs), pulseOffset(ro))]
      : b \in (IF sv = "part_000" THEN ServerBlade000(mobile) ELSE ServerBlade001),
        rs \in Rand, ro \in Rand }

\* Composition: the x position of each ServerRack, in thousandths
rackX == <<-1250, 0, 1250>>

\* ServerRack: const height = 3.5
height == 3500

\* ServerRack: blades = new Array(20).fill(0).map((_, i) =>
\*   ({ y: -height/2 + 0.2 + (i * 0.15) }))
blades == [k \in 1..20 |-> [y |-> -(height \div 2) + 200 + ((k - 1) * 150)]]

\* The BlinkingLight elements the tracked ServerBlade renders.  part_000: the
\* green and the amber link light, always; part_001: three status lights iff
\* hasLights, and the fourth when its draw in the render body succeeded
bladeLights ==
    IF ~uiMounted THEN {}
    ELSE IF sceneVersion = "part_000" THEN {"green", "amber"}
    ELSE IF ~blade.hasLights THEN {}
    ELSE {"status1", "status2", "status3"}
           \cup (IF light[4].mounted THEN {"status4"} ELSE {})

\* The animated instances and scene objects now in the scene graph
Instances ==
    IF ~uiMounted THEN {}
    ELSE {<<"rack", 1>>, <<"rack", 2>>, <<"rack", 3>>, <<"blade", 1>>}
           \cup {<<"light", s>> : s \in {x \in Slots : light[x].mounted}}
           \cup {<<"pointLight", s>> : s \in {x \in Slots : light[x].hasPoint}}
           \cup (IF pulse.mounted THEN {<<"pulse", 1>>} ELSE {})

\* ------------------------------------------------------------------------
\* Per-frame animators (useFrame callbacks)
\* ------------------------------------------------------------------------
\* one rate for every light, that of the default speed 1
blinkRateOfClass(speed) == 1500 + (1000 * 200) \div 1000

\* part_000: blinkRate = 1.5 + speed * 0.2
blinkRate(speed) == 1500 + (speed * 200) \div 1000

\* part_000: isOn = Math.sin((elapsedTime * speed + offset) * blinkRate) > 0
isOn(elapsed, speed, offset) ==
    LET t == (elapsed * speed) \div 1000 + offset
    IN  Sin((t * blinkRate(speed)) \div 1000) > 0

\* part_001: intensity = (Math.sin((elapsedTime * speed + offset) * 15) + 1) / 2
blinkIntensity(elapsed, speed, offset) ==
    LET t == (elapsed * speed) \div 1000 + offset
    IN  (Sin(t * 15) + 1000) \div 2

\* BlinkingLight useFrame of part_000 on a mounted light l
BlinkFrame000(l, elapsed, mobile) ==
    LET on == isOn(elapsed, l.speed, l.offset)
    IN  [l EXCEPT !.scale = IF on THEN 1200 ELSE 900,
                  !.opacity = IF on THEN 1000 ELSE 150,
                  !.bright = on,
                  !.rate = blinkRate(l.speed),
                  !.pointIntensity = IF l.hasPoint /\ ~mobile
                                     THEN (IF on THEN 1200 ELSE 150)
                                     ELSE l.pointIntensity]

\* BlinkingLight useFrame of part_001 on a mounted light l
BlinkFrame001(l, elapsed) ==
    LET intensity == blinkIntensity(elapsed, l.speed, l.offset)
    IN  [l EXCEPT !.scale = 1000 + (intensity * 300) \div 1000,
                  !.opacity = 600 + (intensity * 400) \div 1000,
                  !.rate = 15000]

\* the update without the test of ref.current
BlinkFrameUnguarded(l, elapsed, sv, mobile) ==
    IF sv = "part_000" THEN BlinkFrame000(l, elapsed, mobile)
    ELSE BlinkFrame001(l, elapsed)

\* BlinkingLight useFrame: nothing is done when ref.current is null
BlinkFrame(l, elapsed, sv, mobile) ==
    IF ~l.mounted THEN l
    ELSE IF sv = "part_000" THEN BlinkFrame000(l, elapsed, mobile)
    ELSE BlinkFrame001(l, elapsed)

\* progress clamped to 1 instead of wrapped
pulseProgressClamped(elapsed, speed, offset) ==
    LET x == (elapsed * speed) \div 1000 + offset
    IN  IF x > 1000 THEN 1000 ELSE x

\* PulsePacket: t = (elapsedTime * speed + offset) % 1
pulseProgress(elapsed, speed, offset) == ((elapsed * speed) \div 1000 + offset) % 1000

\* the fade starting at 0.9
pulseOpacityLate(t) == IF t > 900 THEN (1000 - t) * 5 ELSE 1000

\* PulsePacket: opacity = t > 0.8 ? (1 - t) * 5 : 1
pulseOpacity(t) == IF t > 800 THEN (1000 - t) * 5 ELSE 1000

\* THREE.Vector3.lerpVectors(v1, v2, alpha)
lerpVectors(v1, v2, alpha) ==
    [x |-> v1.x + ((v2.x - v1.x) * alpha) \div 1000,
     y |-> v1.y + ((v2.y - v1.y) * alpha) \div 1000,
     z |-> v1.z + ((v2.z - v1.z) * alpha) \div 1000]

\* the progress kept in the packet's offset from frame to frame
PulseFrameKeepsPhase(p, elapsed) ==
    IF ~p.mounted THEN p
    ELSE LET t == pulseProgress(elapsed, p.speed, p.offset)
         IN  [p EXCEPT !.progress = t,
                       !.offset = t,
                       !.position = lerpVectors(paths[1].start, paths[1].end, t),
                       !.opacity = pulseOpacity(t)]

\* PulsePacket useFrame on the packet of the first path
PulseFrame(p, elapsed) ==
    IF ~p.mounted THEN p
    ELSE LET t == pulseProgress(elapsed, p.speed, p.offset)
         IN  [p EXCEPT !.progress = t,
                       !.position = lerpVectors(paths[1].start, paths[1].end, t),
                       !.opacity = pulseOpacity(t)]

\* Composition useFrame: rotation.y = Math.sin(elapsedTime * 0.1) * 0.05
swayAngle(elapsed) == (Sin(elapsed \div 10) * 50) \div 1000

\* Composition useFrame on the group with rotation.y = rot: nothing is done
\* when groupRef.current is null
SwayFrame(rot, attached, elapsed) ==
    IF ~attached THEN rot ELSE swayAngle(elapsed)

\* ------------------------------------------------------------------------
\* Rendering
\* ------------------------------------------------------------------------
\* A re-render of ArchitectScene and everything below it.  Memoised values
\* (useMemo with no dependency that changes) are kept; expressions in the
\* render body are evaluated again.
SceneRender ==
    /\ isMobile' = detectMobile(sceneVersion, innerWidthNarrow, hasTouch)
    /\ \E rs \in Rand, ro \in Rand :
          pulse' = [pulse EXCEPT !.speed = pulseSpeed(rs), !.offset = pulseOffset(ro)]
    /\ blade' = blade
    /\ IF sceneVersion = "part_000"
       THEN light' = [s \in Slots |->
                IF ~light[s].mounted THEN light[s]
                ELSE IF light[s].hasPoint = ~isMobile' THEN light[s]
                ELSE [light[s] EXCEPT !.hasPoint = ~isMobile',
                                      !.pointIntensity = IF ~isMobile' THEN 1500 ELSE 0]]
       ELSE \E rx \in Rand, ro4 \in Rand :
              light' = [light EXCEPT ![4] =
                          IF ~(blade.hasLights /\ extraLight(rx)) THEN NoLight
                          ELSE IF light[4].mounted THEN light[4]
                          ELSE NewLight(8000, lightOffset(ro4), FALSE)]
    /\ UNCHANGED <<groupMounted, groupRotationY>>

\* The state updates of one event handler are committed in one render pass.
\* App re-renders (and with it the scene) only if its state changed.
AppCommit(section, dark) ==
    /\ activeSection' = section
    /\ isDarkMode' = dark
    /\ toggleThemeSees' = dark
    /\ IF section # activeSection \/ dark # isDarkMode
       THEN SceneRender
       ELSE UNCHANGED sceneVars

AppKeep == UNCHANGED <<activeSection, isDarkMode, toggleThemeSees, sceneVars>>

\* the handlers of UIOverlay kept from its first render: the new state is
\* shown, the closures still see the old one
OverlayCommitStale(open) ==
    /\ mobileMenuOpen' = open
    /\ hamburgerSees' = hamburgerSees

\* UIOverlay re-renders with its new state; the handlers created by that
\* render close over it
OverlayCommit(open) ==
    /\ mobileMenuOpen' = open
    /\ hamburgerSees' = open

OverlayKeep == UNCHANGED <<mobileMenuOpen, hamburgerSees>>

\* UIOverlay: {mobileMenuOpen && (<div ... mobile menu overlay>)}
menuOverlayRendered == uiMounted /\ mobileMenuOpen

\* UIOverlay: <main className={... mobileMenuOpen ? 'opacity-0' : 'opacity-100'}>
mainOpacity == IF mobileMenuOpen THEN "opacity-0" ELSE "opacity-100"

\* UIOverlay: the colour classes chosen from isDarkMode
overlayClasses(dark) ==
    [textPrimary |-> IF dark THEN "text-arch-100" ELSE "text-arch-900",
     textSecondary |-> IF dark THEN "text-arch-500" ELSE "text-arch-500",
     borderPrimary |-> IF dark THEN "border-arch-100" ELSE "border-arch-900",
     borderSecondary |-> IF dark THEN "border-arch-800" ELSE "border-arch-300",
     cardBg |-> IF dark THEN "bg-arch-900/80" ELSE "bg-white/80",
     mobileMenuBg |-> IF dark THEN "bg-arch-900" ELSE "bg-arch-100"]

\* UIOverlay: the entries drawn as active,
\* activeSection === item.toLowerCase()
highlighted(section) == {item \in MenuLabels : section = toLowerCase(item)}

\* ArchitectScene and CircuitFloor: the colours chosen from isDarkMode
scenePalette(dark) ==
    [bgColor |-> IF dark THEN "#111111" ELSE "#F0F0F0",
     fogColor |-> IF dark THEN "#111111" ELSE "#F0F0F0",
     shadowColor |-> IF dark THEN "#000000" ELSE "#888888",
     pulseColor |-> IF dark THEN "#00ff88" ELSE "#10b981",
     gridColor |-> IF dark THEN "#222" ELSE "#ddd"]

\* What one render pass hands to the screen and to the scene: the overlay
\* from its props and state, the scene colours, and the props CircuitFloor
\* gives its PulsePacket
RenderOf(section, dark, open, speed, offset) ==
    [labels |-> menuItems,
     highlighted |-> highlighted(section),
     classes |-> overlayClasses(dark),
     menuShown |-> open,
     palette |-> scenePalette(dark),
     pulseProps |-> [speed |-> speed, offset |-> offset]]

\* The output of the last render pass
Rendered ==
    RenderOf(activeSection, isDarkMode, mobileMenuOpen, pulse.speed, pulse.offset)

\* The output of the render pass at page load: the useState defaults and the
\* props the PulsePacket was mounted with
RenderedAtLoad ==
    RenderOf(home, TRUE, FALSE, pulse.firstSpeed, pulse.firstOffset)

\* The section a menu label stands for
sectionOf(item) ==
    IF item = HOME THEN home
    ELSE IF item = PROJECTS THEN projects
    ELSE IF item = TOOLS THEN tools
    ELSE contact

\* The view-state a click is to produce from the view-state v
applyClick(v, kind, item) ==
    IF kind = "navigate" THEN [v EXCEPT !.section = sectionOf(item)]
    ELSE IF kind = "mobileSelect"
         THEN [v EXCEPT !.section = sectionOf(item), !.menuOpen = FALSE]
    ELSE IF kind = "hamburger" THEN [v EXCEPT !.menuOpen = ~v.menuOpen]
    ELSE [v EXCEPT !.theme = IF v.theme = "dark" THEN "light" ELSE "dark"]

\* History of a click that is no theme toggle
Clicked(kind, item) ==
    /\ lastEv' = [kind |-> kind, item |-> item]
    /\ instancesBefore' = Instances
    /\ toggleHistory' = <<>>
    /\ clicksApplied' = applyClick(clicksApplied, kind, item)

\* History of a theme-toggle click
Toggled(kind) ==
    /\ lastEv' = [kind |-> kind, item |-> <<>>]
    /\ instancesBefore' = Instances
    /\ toggleHistory' = LET e == [kind |-> kind, view |-> View]
                        IN  IF Len(toggleHistory) = 2
                            THEN <<toggleHistory[2], e>>
                            ELSE Append(toggleHistory, e)
    /\ clicksApplied' = applyClick(clicksApplied, kind, <<>>)

\* History of an event that is no click
Happened(kind) ==
    /\ lastEv' = [kind |-> kind, item |-> <<>>]
    /\ instancesBefore' = Instances
    /\ UNCHANGED <<toggleHistory, clicksApplied>>

\* ------------------------------------------------------------------------
\* Event handlers
\* ------------------------------------------------------------------------
\* toggleTheme memoised at mount: it keeps seeing the initial isDarkMode
toggleThemeOnce == AppCommit(activeSection, FALSE)

\* App: toggleTheme={() => setIsDarkMode(!isDarkMode)}
toggleTheme == AppCommit(activeSection, ~toggleThemeSees)

\* the label handed to onNavigate without lower-casing
NavigateDesktopRaw(item) ==
    /\ uiMounted /\ ~innerWidthNarrow
    /\ AppCommit(item, isDarkMode)
    /\ OverlayKeep
    /\ Clicked("navigate", item)
    /\ UNCHANGED <<shellVars, clockVars>>

\* Desktop nav button (hidden below 768px): onNavigate(item.toLowerCase())
NavigateDesktop(item) ==
    /\ uiMounted /\ ~innerWidthNarrow
    /\ AppCommit(toLowerCase(item), isDarkMode)
    /\ OverlayKeep
    /\ Clicked("navigate", item)
    /\ UNCHANGED <<shellVars, clockVars>>

\* Desktop theme toggle (hidden below 768px): onClick={toggleTheme}
ToggleThemeDesktop ==
    /\ uiMounted /\ ~innerWidthNarrow
    /\ toggleTheme
    /\ OverlayKeep
    /\ Toggled("toggleThemeDesktop")
    /\ UNCHANGED <<shellVars, clockVars>>

\* The useState setters the click handler of each kind calls
settersCalled(kind) ==
    IF kind = "navigate" THEN {"setActiveSection"}
    ELSE IF kind = "mobileSelect" THEN {"setActiveSection", "setMobileMenuOpen"}
    ELSE IF kind = "hamburger" THEN {"setMobileMenuOpen"}
    ELSE {"setIsDarkMode"}

\* The component whose useState made the setter
stateOwner(setter) ==
    IF setter = "setMobileMenuOpen" THEN "UIOverlay" ELSE "App"

\* menuOpen kept in App and flipped through a callback prop: App re-renders,
\* and the scene with it
HamburgerThroughShell ==
    /\ uiMounted /\ innerWidthNarrow
    /\ OverlayCommit(~hamburgerSees)
    /\ UNCHANGED <<activeSection, isDarkMode, toggleThemeSees>>
    /\ SceneRender
    /\ Clicked("hamburger", <<>>)
    /\ UNCHANGED <<shellVars, clockVars>>

\* Hamburger / close button (shown below 768px):
\* setMobileMenuOpen(!mobileMenuOpen); only UIOverlay re-renders
Hamburger ==
    /\ uiMounted /\ innerWidthNarrow
    /\ OverlayCommit(~hamburgerSees)
    /\ AppKeep
    /\ Clicked("hamburger", <<>>)
    /\ UNCHANGED <<shellVars, clockVars>>

\* the selection without setMobileMenuOpen(false)
MobileSelectKeepsMenu(item) ==
    /\ uiMounted /\ innerWidthNarrow /\ mobileMenuOpen
    /\ AppCommit(toLowerCase(item), isDarkMode)
    /\ OverlayKeep
    /\ Clicked("mobileSelect", item)
    /\ UNCHANGED <<shellVars, clockVars>>

\* the menu entries within reach while the menu is closed
MobileSelectAnyTime(item) ==
    /\ uiMounted /\ innerWidthNarrow
    /\ AppCommit(toLowerCase(item), isDarkMode)
    /\ OverlayCommit(FALSE)
    /\ Clicked("mobileSelect", item)
    /\ UNCHANGED <<shellVars, clockVars>>

\* the menu entry handing its label on without lower-casing
MobileSelectRaw(item) ==
    /\ uiMounted /\ innerWidthNarrow /\ mobileMenuOpen
    /\ AppCommit(item, isDarkMode)
    /\ OverlayCommit(FALSE)
    /\ Clicked("mobileSelect", item)
    /\ UNCHANGED <<shellVars, clockVars>>

\* Mobile menu entry: onNavigate(item.toLowerCase()); setMobileMenuOpen(false)
MobileSelect(item) ==
    /\ uiMounted /\ innerWidthNarrow /\ mobileMenuOpen
    /\ AppCommit(toLowerCase(item), isDarkMode)
    /\ OverlayCommit(FALSE)
    /\ Clicked("mobileSelect", item)
    /\ UNCHANGED <<shellVars, clockVars>>

\* the toggle closing the menu as a menu entry does
ToggleThemeMobileCloses ==
    /\ uiMounted /\ innerWidthNarrow /\ mobileMenuOpen
    /\ toggleTheme
    /\ OverlayCommit(FALSE)
    /\ Toggled("toggleThemeMobile")
    /\ UNCHANGED <<shellVars, clockVars>>

\* Theme toggle inside the open mobile menu: toggleTheme()
ToggleThemeMobile ==
    /\ uiMounted /\ innerWidthNarrow /\ mobileMenuOpen
    /\ toggleTheme
    /\ OverlayKeep
    /\ Toggled("toggleThemeMobile")
    /\ UNCHANGED <<shellVars, clockVars>>

\* The window is resized across the 768px breakpoint; nothing re-renders
Resize ==
    /\ rootMounted
    /\ innerWidthNarrow' = ~innerWidthNarrow
    /\ Happened("resize")
    /\ UNCHANGED <<appVersion, sceneVersion, hasTouch, rootMounted, hasError,
                   viewVars, sceneVars, clockVars>>

\* One display refresh: every useFrame callback runs once with the new
\* elapsed time
Frame(d) ==
    /\ uiMounted /\ frameCount < MaxFrames
    /\ elapsedTime' = elapsedTime + d
    /\ frameCount' = frameCount + 1
    /\ light' = [s \in Slots |-> BlinkFrame(light[s], elapsedTime', sceneVersion, isMobile)]
    /\ pulse' = PulseFrame(pulse, elapsedTime')
    /\ groupRotationY' = SwayFrame(groupRotationY, groupMounted, elapsedTime')
    /\ Happened("frame")
    /\ UNCHANGED <<shellVars, viewVars, isMobile, blade, groupMounted>>

\* One display refresh of a run of frames that never ends: as Frame, with
\* the elapsed time followed over a window of WindowSeconds and the frames
\* not counted
SteadyFrame(d) ==
    /\ uiMounted
    /\ elapsedTime' = (elapsedTime + d) % (WindowSeconds * 1000)
    /\ frameCount' = frameCount
    /\ light' = [s \in Slots |-> BlinkFrame(light[s], elapsedTime', sceneVersion, isMobile)]
    /\ pulse' = PulseFrame(pulse, elapsedTime')
    /\ groupRotationY' = SwayFrame(groupRotationY, groupMounted, elapsedTime')
    /\ Happened("frame")
    /\ UNCHANGED <<shellVars, viewVars, isMobile, blade, groupMounted>>

\* ------------------------------------------------------------------------
\* Failure boundary
\* ------------------------------------------------------------------------
\* Everything below the ErrorBoundary is unmounted: the scene, its clock and
\* the overlay.  App's own state is above the boundary.
Unmounted ==
    /\ isMobile' = FALSE
    /\ blade' = NoBlade
    /\ light' = [s \in Slots |-> NoLight]
    /\ pulse' = NoPulse
    /\ groupMounted' = FALSE
    /\ groupRotationY' = 0
    /\ elapsedTime' = 0
    /\ frameCount' = 0

\* What the page shows
Display ==
    IF ~rootMounted THEN "blank"
    ELSE IF hasError THEN "fallback"
    ELSE "app"

\* A render of the scene layer or of the overlay throws.  With the boundary,
\* getDerivedStateFromError sets hasError; without one React unmounts the
\* whole root.  The view-state variables keep their last values: App's state
\* is above the boundary, and nothing renders the overlay's any more.
RenderFail ==
    /\ uiMounted
    /\ IF appVersion = "boundary"
       THEN hasError' = TRUE /\ rootMounted' = rootMounted
       ELSE hasError' = hasError /\ rootMounted' = FALSE
    /\ Unmounted
    /\ lastEv' = [kind |-> "renderFail", item |-> <<>>]
    /\ instancesBefore' = Instances
    /\ toggleHistory' = <<>>
    /\ UNCHANGED clicksApplied
    /\ UNCHANGED <<appVersion, sceneVersion, hasTouch, innerWidthNarrow, viewVars>>

\* the theme restored from storage on load
PageLoadPersisted(narrow) ==
    /\ rootMounted' = TRUE
    /\ hasError' = FALSE
    /\ activeSection' = home
    /\ isDarkMode' = isDarkMode
    /\ mobileMenuOpen' = FALSE
    /\ toggleThemeSees' = isDarkMode
    /\ hamburgerSees' = FALSE
    /\ isMobile' = detectMobile(sceneVersion, narrow, hasTouch)
    /\ \E sc \in FreshScene(sceneVersion, detectMobile(sceneVersion, narrow, hasTouch)) :
          /\ blade' = sc.blade
          /\ light' = sc.light
          /\ pulse' = sc.pulse
    /\ groupMounted' = TRUE
    /\ groupRotationY' = 0
    /\ elapsedTime' = 0
    /\ frameCount' = 0

\* A page load: App and UIOverlay state at their useState defaults, a newly
\* built scene, the clock at zero
PageLoad(narrow) ==
    /\ rootMounted' = TRUE
    /\ hasError' = FALSE
    /\ activeSection' = home
    /\ isDarkMode' = TRUE
    /\ mobileMenuOpen' = FALSE
    /\ toggleThemeSees' = TRUE
    /\ hamburgerSees' = FALSE
    /\ isMobile' = detectMobile(sceneVersion, narrow, hasTouch)
    /\ \E sc \in FreshScene(sceneVersion, detectMobile(sceneVersion, narrow, hasTouch)) :
          /\ blade' = sc.blade
          /\ light' = sc.light
          /\ pulse' = sc.pulse
    /\ groupMounted' = TRUE
    /\ groupRotationY' = 0
    /\ elapsedTime' = 0
    /\ frameCount' = 0

\* Fallback panel: onClick={() => window.location.reload()}
Reload ==
    /\ rootMounted /\ hasError
    /\ PageLoad(innerWidthNarrow)
    /\ lastEv' = [kind |-> "reload", item |-> <<>>]
    /\ instancesBefore' = Instances
    /\ toggleHistory' = <<>>
    /\ clicksApplied' = [section |-> home, theme |-> "dark", menuOpen |-> FALSE]
    /\ UNCHANGED <<appVersion, sceneVersion, hasTouch, innerWidthNarrow>>

\* The browser reloads the page (reload button, F5): possible in any state,
\* also on a blank page.  Nothing is kept in storage.
BrowserReload ==
    /\ PageLoad(innerWidthNarrow)
    /\ lastEv' = [kind |-> "reload", item |-> <<>>]
    /\ instancesBefore' = Instances
    /\ toggleHistory' = <<>>
    /\ clicksApplied' = [section |-> home, theme |-> "dark", menuOpen |-> FALSE]
    /\ UNCHANGED <<appVersion, sceneVersion, hasTouch, innerWidthNarrow>>

\* ------------------------------------------------------------------------
\* Specification
\* ------------------------------------------------------------------------
Init ==
    /\ appVersion \in {"boundary", "plain"}
    /\ sceneVersion \in {"part_000", "part_001"}
    /\ hasTouch \in BOOLEAN
    /\ innerWidthNarrow \in BOOLEAN
    /\ rootMounted = TRUE
    /\ hasError = FALSE
    /\ activeSection = home
    /\ isDarkMode = TRUE
    /\ mobileMenuOpen = FALSE
    /\ toggleThemeSees = TRUE
    /\ hamburgerSees = FALSE
    /\ isMobile = detectMobile(sceneVersion, innerWidthNarrow, hasTouch)
    /\ \E sc \in FreshScene(sceneVersion, detectMobile(sceneVersion, innerWidthNarrow, hasTouch)) :
          /\ blade = sc.blade
          /\ light = sc.light
          /\ pulse = sc.pulse
    /\ groupMounted = TRUE
    /\ groupRotationY = 0
    /\ elapsedTime = 0
    /\ frameCount = 0
    /\ lastEv = [kind |-> "load", item |-> <<>>]
    /\ instancesBefore = {}
    /\ toggleHistory = <<>>
    /\ clicksApplied = [section |-> home, theme |-> "dark", menuOpen |-> FALSE]

\* The whole page.  Its state space is the product of the two parts below,
\* which share only the re-render of the scene; the properties are checked on
\* the parts, SpecPage and SpecScene.
Next ==
    \/ \E item \in MenuLabels : NavigateDesktop(item)
    \/ ToggleThemeDesktop
    \/ Hamburger
    \/ \E item \in MenuLabels : MobileSelect(item)
    \/ ToggleThemeMobile
    \/ Resize
    \/ \E d \in FrameDeltas : Frame(d)
    \/ RenderFail
    \/ Reload
    \/ BrowserReload

Spec == Init /\ [][Next]_vars

\* The page without the frame loop, on a device without touch input (isMobile
\* follows the window width): clicks, resizes, render failures, reloads
InitPage == Init /\ ~hasTouch

NextPage ==
    \/ \E item \in MenuLabels : NavigateDesktop(item)
    \/ ToggleThemeDesktop
    \/ Hamburger
    \/ \E item \in MenuLabels : MobileSelect(item)
    \/ ToggleThemeMobile
    \/ Resize
    \/ RenderFail
    \/ Reload
    \/ BrowserReload

SpecPage == InitPage /\ [][NextPage]_vars

\* The scene under the frame loop, in a desktop-width window of the App with
\* the boundary, re-rendered by theme toggles
InitScene == Init /\ appVersion = "boundary" /\ ~innerWidthNarrow

NextScene ==
    \/ ToggleThemeDesktop
    \/ \E d \in FrameDeltas : Frame(d)

SpecScene == InitScene /\ [][NextScene]_vars

\* The useFrame callbacks on their own: each is run on a target that is there
\* or not (ref.current set or null) when the frame comes, on a desktop-width
\* window with or without touch input
InitAnimators ==
    /\ appVersion = "boundary"
    /\ sceneVersion \in {"part_000", "part_001"}
    /\ hasTouch \in BOOLEAN
    /\ innerWidthNarrow = FALSE
    /\ rootMounted = TRUE
    /\ hasError = FALSE
    /\ activeSection = home
    /\ isDarkMode = TRUE
    /\ mobileMenuOpen = FALSE
    /\ toggleThemeSees = TRUE
    /\ hamburgerSees = FALSE
    /\ isMobile = detectMobile(sceneVersion, innerWidthNarrow, hasTouch)
    /\ \E sc \in FreshScene(sceneVersion, detectMobile(sceneVersion, innerWidthNarrow, hasTouch)),
          lightRef \in [Slots -> BOOLEAN], pulseRef \in BOOLEAN :
          /\ blade = sc.blade
          /\ light = [s \in Slots |->
                        [sc.light[s] EXCEPT !.mounted = sc.light[s].mounted /\ lightRef[s]]]
          /\ pulse = [sc.pulse EXCEPT !.mounted = pulseRef]
    /\ groupMounted \in BOOLEAN
    /\ groupRotationY = 0
    /\ elapsedTime = 0
    /\ frameCount = 0
    /\ lastEv = [kind |-> "load", item |-> <<>>]
    /\ instancesBefore = {}
    /\ toggleHistory = <<>>
    /\ clicksApplied = [section |-> home, theme |-> "dark", menuOpen |-> FALSE]

NextAnimators == \E d \in FrameDeltas : Frame(d)

SpecAnimators == InitAnimators /\ [][NextAnimators]_vars

\* The scene of part_000 under a frame loop that never stops, in a
\* desktop-width window: the render loop requests the next frame at the end
\* of each one, so a frame is always taken again
InitSteady == Init /\ appVersion = "boundary" /\ sceneVersion = "part_000" /\ ~innerWidthNarrow

NextSteady == \E d \in SteadyDeltas : SteadyFrame(d)

SpecSteady == InitSteady /\ [][NextSteady]_vars /\ WF_vars(NextSteady)

\* ------------------------------------------------------------------------
\* Properties
\* ------------------------------------------------------------------------
ClickKinds == {"navigate", "toggleThemeDesktop", "hamburger", "mobileSelect",
               "toggleThemeMobile"}

\* C1: two consecutive theme-toggle clicks (desktop or mobile-menu toggle, in
\* any combination) leave section, theme and menuOpen as they were before
\* the first of the two clicks.
C1_ToggleTwiceRestoresView ==
    Len(toggleHistory) = 2 => View = toggleHistory[1].view

\* C1 witness: a desktop toggle followed by a toggle inside the open mobile
\* menu, in light-then-dark order
C1_Witness ==
    /\ Len(toggleHistory) = 2
    /\ toggleHistory[1].kind = "toggleThemeDesktop"
    /\ toggleHistory[2].kind = "toggleThemeMobile"
    /\ toggleHistory[2].view.theme # toggleHistory[1].view.theme
    /\ mobileMenuOpen

\* C2: a mobile menu selection commits the new section and menuOpen = false
\* together: the state rendered after the selection never has the selected
\* section with the menu still open.
C2_MobileSelectClosesMenu ==
    lastEv.kind = "mobileSelect" =>
        /\ ~mobileMenuOpen
        /\ \E i \in DOMAIN menuItems :
              lastEv.item = menuItems[i] /\ activeSection = <<home, projects, tools, contact>>[i]

\* C2 witness: PROJECTS selected in the mobile menu while another section
\* was shown
C2_Witness ==
    /\ lastEv = [kind |-> "mobileSelect", item |-> PROJECTS]
    /\ activeSection = projects
    /\ ~mobileMenuOpen
    /\ uiMounted

\* C3: a click on the navigation entry labelled L sets section to the
\* lower-cased label and the content area renders the panel of that section
\* and no other; PROJECTS gives section "projects" and the projects panel.
C3_NavigateShowsPanel ==
    lastEv.kind = "navigate" =>
        /\ \E i \in DOMAIN menuItems :
              /\ lastEv.item = menuItems[i]
              /\ activeSection = <<home, projects, tools, contact>>[i]
              /\ mainPanels(activeSection) = {<<"home", "projects", "tools", "contact">>[i]}
        /\ (lastEv.item = PROJECTS =>
              activeSection = projects /\ mainPanels(activeSection) = {"projects"})

\* C3 witness: PROJECTS clicked in the desktop navigation
C3_Witness ==
    /\ lastEv = [kind |-> "navigate", item |-> PROJECTS]
    /\ activeSection = projects
    /\ mainPanels(activeSection) = {"projects"}

\* C8: in every state reached by clicks, section is one of home, projects,
\* tools, contact, theme is dark or light, and menuOpen is a boolean.
C8_ViewStateDomain ==
    /\ activeSection \in {home, projects, tools, contact}
    /\ isDarkMode \in BOOLEAN
    /\ View.theme \in {"dark", "light"}
    /\ mobileMenuOpen \in BOOLEAN

\* C8 witness: a state away from every default, reached by clicks only
C8_Witness ==
    /\ activeSection = contact
    /\ ~isDarkMode
    /\ mobileMenuOpen
    /\ lastEv.kind \in ClickKinds

\* The instances the scene composes: racks, blades, blinking lights, pulse
\* packets
Composed(instances) == {i \in instances : i[1] \in {"rack", "blade", "light", "pulse"}}

\* C4: the phase offset and the speed of every animated instance are those
\* it was created with, whatever re-renders theme toggles, navigation clicks
\* or menu toggles have caused since.
C4_PhaseAssignedOnce ==
    /\ \A s \in Slots :
          light[s].mounted =>
              light[s].offset = light[s].firstOffset /\ light[s].speed = light[s].firstSpeed
    /\ pulse.mounted =>
          pulse.offset = pulse.firstOffset /\ pulse.speed = pulse.firstSpeed

\* C5: the blink update writes one of two intensity levels to the light, the
\* on level (1.0) or the off level (0.15), and nothing in between.
C5_BlinkTwoLevels ==
    \A s \in Slots : light[s].mounted => light[s].opacity \in {1000, 150}

\* C6: after a frame the pulse progress is in [0,1), it is t*speed + offset
\* less a whole number of cycles, and so it is 0 exactly when t*speed + offset
\* is an integer.
C6_PulseProgressWraps ==
    (lastEv.kind = "frame" /\ pulse.mounted) =>
        LET x == (elapsedTime * pulse.speed) \div 1000 + pulse.offset
        IN  /\ pulse.progress >= 0 /\ pulse.progress < 1000
            /\ \E k \in 0..(x \div 1000) : x = k * 1000 + pulse.progress
            /\ (pulse.progress = 0 <=> \E k \in 0..(x \div 1000) : x = k * 1000)

\* C6 witness: a frame on which t*speed + offset has just reached an integer
\* beyond the offset, and the progress is back at 0
C6_Witness ==
    /\ lastEv.kind = "frame" /\ pulse.mounted
    /\ pulse.progress = 0
    /\ (elapsedTime * pulse.speed) \div 1000 + pulse.offset > pulse.offset
    /\ pulse.position = paths[1].start

\* C7: the pulse opacity is 1 up to progress 0.8 and (1 - progress) * 5 beyond
\* it; it stays within [0,1] and meets 1 at progress 0.8 (it is never further
\* from 1 than five times the distance of progress from 0.8).
C7_PulseOpacityRamp ==
    pulse.mounted =>
        /\ (pulse.progress <= 800 => pulse.opacity = 1000)
        /\ (pulse.progress > 800 => pulse.opacity = (1000 - pulse.progress) * 5)
        /\ pulse.opacity >= 0 /\ pulse.opacity <= 1000
        /\ (pulse.progress > 800 => 1000 - pulse.opacity = 5 * (pulse.progress - 800))

\* C7 witness: a packet in the first tenth of its fade-out
C7_Witness ==
    /\ lastEv.kind = "frame" /\ pulse.mounted
    /\ pulse.progress > 800 /\ pulse.progress <= 900
    /\ pulse.opacity < 1000 /\ pulse.opacity >= 500

\* C9: when a render of the scene layer or of the overlay fails, the shell
\* shows the fallback panel with the reload action.
C9_FailureShowsFallback ==
    lastEv.kind = "renderFail" => (Display = "fallback" /\ ENABLED Reload)

\* C10: a click re-renders without restructuring the scene graph: the racks,
\* blades, blinking lights and pulse packets present after it are those
\* present before it.
C10_SceneGraphStable ==
    lastEv.kind \in ClickKinds => Composed(Instances) = Composed(instancesBefore)

\* C11: two renders with the same (section, theme, menuOpen) give the same
\* output: whenever the page is back in the view-state it was loaded with
\* (home, dark, menu closed), the navigation labels, the highlighted entry,
\* the overlay colour classes, the scene palette and the scene props are
\* those of the render at page load.
C11_RenderDeterministic ==
    (uiMounted /\ View = [section |-> home, theme |-> "dark", menuOpen |-> FALSE])
        => Rendered = RenderedAtLoad

\* C12: no view-state update is lost.  After any sequence of clicks the
\* theme is the initial theme flipped once per theme-toggle click, the
\* section is the entry of the last navigation click (desktop or mobile), and
\* menuOpen is what the hamburger clicks and mobile selections give when
\* applied in order.
C12_NoLostUpdate ==
    uiMounted => View = clicksApplied

\* C12 witness: the menu was opened and closed again with the hamburger, the
\* theme toggled an odd number of times and TOOLS selected, all since the load
C12_Witness ==
    /\ uiMounted
    /\ lastEv.kind = "hamburger"
    /\ clicksApplied = [section |-> tools, theme |-> "light", menuOpen |-> FALSE]
    /\ View = clicksApplied

\* C13: on a frame where the target of an animator is absent (ref.current
\* is null), that animator writes nothing and raises no error: the light, the
\* packet or the group is after the frame as it was before it, and the page
\* still shows the app.  This holds for the blink, the pulse and the sway
\* animator alike.
C13_AbsentTargetSkipped ==
    [][ lastEv'.kind = "frame" =>
          /\ \A s \in Slots : ~light[s].mounted => light'[s] = light[s]
          /\ ~pulse.mounted => pulse' = pulse
          /\ ~groupMounted => groupRotationY' = groupRotationY
          /\ Display' = "app" ]_vars

\* C13 witness: a frame has run while the mesh of a rendered light, the mesh
\* of the packet and the group were all absent
C13_Witness ==
    /\ lastEv.kind = "frame" /\ elapsedTime > 0
    /\ ~light[1].mounted /\ light[1].speed > 0
    /\ light[1].scale = 1000 /\ light[1].opacity = 1000
    /\ ~pulse.mounted /\ pulse.speed > 0 /\ pulse.progress = 0
    /\ ~groupMounted /\ groupRotationY = 0
    /\ Display = "app"

\* C14: a frame writes only the visual properties of the animators' own
\* targets (blink: scale, opacity, colour, point-light intensity; pulse:
\* position, opacity; sway: rotation.y).  The view-state, the speed and phase
\* offset of every instance, the memoised blade values and the set of
\* instances in the scene are after the frame what they were before it, and
\* a light without a point light has none written.
C14_FrameWritesOwnTarget ==
    [][ lastEv'.kind = "frame" =>
          /\ View' = View
          /\ blade' = blade /\ isMobile' = isMobile
          /\ \A s \in Slots :
                /\ light'[s].speed = light[s].speed
                /\ light'[s].offset = light[s].offset
                /\ light'[s].mounted = light[s].mounted
                /\ light'[s].hasPoint = light[s].hasPoint
                /\ ~light[s].hasPoint => light'[s].pointIntensity = light[s].pointIntensity
          /\ pulse'.speed = pulse.speed
          /\ pulse'.offset = pulse.offset
          /\ pulse'.mounted = pulse.mounted
          /\ Instances' = Instances ]_vars

\* C14 witness: a frame in light mode has written a light, the packet and
\* the group
C14_Witness ==
    /\ lastEv.kind = "frame" /\ ~isDarkMode
    /\ light[1].mounted /\ light[1].scale # 1000
    /\ pulse.mounted /\ pulse.progress > 0 /\ pulse.position # [x |-> 0, y |-> 0, z |-> 0]
    /\ groupRotationY # 0

\* C15: the blink rate is one constant per light class: the rate a green
\* link light uses in its on/off test is the rate every green link light
\* uses, whatever speed the instance was given.
C15_BlinkRateFixedPerClass ==
    (sceneVersion = "part_000" /\ light[1].mounted /\ light[1].rate # 0) =>
        \A r \in Rand : light[1].rate = 1500 + (lightSpeed(r) * 200) \div 1000

\* C15 as amended: the rate of a light is fixed by the speed the instance
\* was mounted with and does not depend on its phase offset: 1.5 + 0.2 * speed
\* for a link light of part_000, 15 for a status light of part_001.
C15_BlinkRateFollowsSpeed ==
    \A s \in Slots :
        (light[s].mounted /\ light[s].rate # 0) =>
            light[s].rate = IF sceneVersion = "part_000"
                            THEN 1500 + (light[s].firstSpeed * 200) \div 1000
                            ELSE 15000

\* C15 witness: after a re-render and a frame, a green link light of the
\* higher speed uses a rate that a light of the lower speed does not
C15_Witness ==
    /\ sceneVersion = "part_000" /\ lastEv.kind = "frame" /\ ~isDarkMode
    /\ light[1].mounted /\ light[1].firstSpeed = lightSpeed(880)
    /\ light[1].rate = 1500 + (lightSpeed(880) * 200) \div 1000
    /\ light[1].rate # 1500 + (lightSpeed(120) * 200) \div 1000

\* C16: section, theme and menuOpen are all owned by the top-level shell
\* and changed only through callback props: every state setter a click
\* handler calls belongs to state held by App.
C16_ViewStateOwnedByShell ==
    lastEv.kind \in ClickKinds =>
        \A setter \in settersCalled(lastEv.kind) : stateOwner(setter) = "App"

\* C16 as amended: section and theme are held by the shell and change only
\* by the clicks that call onNavigate and toggleTheme (or a page reload);
\* menuOpen is held by the overlay and changes only by its hamburger and
\* menu-selection handlers (or a page reload), and a hamburger click
\* re-renders neither the shell nor the scene.
C16_MenuOwnedByOverlay ==
    [][ /\ activeSection' # activeSection =>
              lastEv'.kind \in {"navigate", "mobileSelect", "reload"}
        /\ isDarkMode' # isDarkMode =>
              lastEv'.kind \in {"toggleThemeDesktop", "toggleThemeMobile", "reload"}
        /\ mobileMenuOpen' # mobileMenuOpen =>
              lastEv'.kind \in {"hamburger", "mobileSelect", "reload"}
        /\ lastEv'.kind = "hamburger" =>
              sceneVars' = sceneVars /\ toggleThemeSees' = toggleThemeSees ]_vars

\* C16 witness: the window was narrowed and the menu opened with the
\* hamburger; the scene still has the isMobile of its last render
C16_Witness ==
    /\ lastEv.kind = "hamburger" /\ mobileMenuOpen
    /\ sceneVersion = "part_000"
    /\ isMobile # detectMobile(sceneVersion, innerWidthNarrow, hasTouch)
    /\ stateOwner("setMobileMenuOpen") = "UIOverlay"

\* C17: each transition changes only its own field.  A desktop navigation
\* click sets section and leaves theme and menuOpen; a theme toggle (desktop
\* or in the open mobile menu) flips theme and leaves section and menuOpen,
\* so the mobile menu stays open; a hamburger click flips menuOpen and leaves
\* section and theme; a mobile menu selection leaves theme.
C17_TransitionOwnField ==
    [][ /\ lastEv'.kind = "navigate" =>
              /\ activeSection' = sectionOf(lastEv'.item)
              /\ isDarkMode' = isDarkMode /\ mobileMenuOpen' = mobileMenuOpen
        /\ lastEv'.kind \in {"toggleThemeDesktop", "toggleThemeMobile"} =>
              /\ isDarkMode' = ~isDarkMode
              /\ activeSection' = activeSection /\ mobileMenuOpen' = mobileMenuOpen
        /\ lastEv'.kind = "toggleThemeMobile" => mobileMenuOpen'
        /\ lastEv'.kind = "hamburger" =>
              /\ mobileMenuOpen' = ~mobileMenuOpen
              /\ activeSection' = activeSection /\ isDarkMode' = isDarkMode
        /\ lastEv'.kind = "mobileSelect" => isDarkMode' = isDarkMode ]_vars

\* C17 witness: the theme was toggled to light inside the open mobile menu
\* while the projects section was shown, and the menu is still open
C17_Witness ==
    /\ lastEv.kind = "toggleThemeMobile"
    /\ mobileMenuOpen /\ ~isDarkMode /\ activeSection = projects

\* C18: on every frame where a blinking light is updated, its scale, its
\* material opacity and its point-light intensity come from one on/off
\* decision: they are (1.2, 1.0, 1.2) or (0.9, 0.15, 0.15), never a mix, and
\* on a mobile device no point-light intensity is written.
C18_BlinkTripleCoherent ==
    lastEv.kind = "frame" =>
        \A s \in Slots :
            light[s].mounted =>
                /\ \/ /\ light[s].scale = 1200 /\ light[s].opacity = 1000
                      /\ light[s].hasPoint => light[s].pointIntensity = 1200
                   \/ /\ light[s].scale = 900 /\ light[s].opacity = 150
                      /\ light[s].hasPoint => light[s].pointIntensity = 150
                /\ isMobile => light[s].pointIntensity = 0

\* C19: whenever the overlay is shown, exactly one content panel is rendered
\* in the main content area, the panel of the current section (home,
\* projects, tools or contact); never two panels and never none.
C19_ExactlyOnePanel ==
    uiMounted =>
        /\ Cardinality(mainPanels(activeSection)) = 1
        /\ \E i \in 1..4 :
              /\ activeSection = <<home, projects, tools, contact>>[i]
              /\ <<"home", "projects", "tools", "contact">>[i] \in mainPanels(activeSection)

\* C19 witness: the tools panel alone is rendered, in light mode and with
\* the mobile menu just opened over it
C19_Witness ==
    /\ uiMounted /\ clicksApplied.section = tools /\ clicksApplied.theme = "light"
    /\ lastEv.kind = "hamburger" /\ mobileMenuOpen
    /\ mainPanels(activeSection) = {"tools"}

\* C20: the mobile menu overlay is rendered iff menuOpen is true and the
\* main content area is hidden iff menuOpen is true; a mobile menu selection
\* is possible only in a state with menuOpen = true, and every selection
\* takes menuOpen from true to false.
C20_MenuOverlayIffOpen ==
    /\ [](uiMounted =>
            /\ menuOverlayRendered <=> mobileMenuOpen
            /\ mainOpacity = "opacity-0" <=> mobileMenuOpen
            /\ (\E item \in MenuLabels : ENABLED MobileSelect(item)) =>
                  menuOverlayRendered /\ mobileMenuOpen)
    /\ [][ lastEv'.kind = "mobileSelect" =>
              /\ mobileMenuOpen /\ menuOverlayRendered
              /\ ~mobileMenuOpen' /\ ~menuOverlayRendered'
              /\ mainOpacity' = "opacity-100" ]_vars

\* C20 witness: CONTACT was selected in the open mobile menu; the menu is
\* closed, its overlay gone and the main content area visible
C20_Witness ==
    /\ lastEv = [kind |-> "mobileSelect", item |-> CONTACT]
    /\ uiMounted /\ ~mobileMenuOpen /\ ~menuOverlayRendered
    /\ mainOpacity = "opacity-100"
    /\ activeSection = contact

\* C21: the failure state is absorbing.  Once the error boundary has
\* recorded a render failure it shows the fallback panel after every further
\* event, no navigation, theme toggle or menu toggle is possible and no
\* frame is rendered, the view-state stays as it is, and the one action left
\* is the manual reload.
C21_FailureAbsorbing ==
    /\ [](hasError =>
            /\ Display = "fallback"
            /\ \A item \in MenuLabels :
                  ~ENABLED NavigateDesktop(item) /\ ~ENABLED MobileSelect(item)
            /\ ~ENABLED ToggleThemeDesktop /\ ~ENABLED ToggleThemeMobile
            /\ ~ENABLED Hamburger
            /\ \A d \in FrameDeltas : ~ENABLED Frame(d)
            /\ ~ENABLED RenderFail
            /\ ENABLED Reload)
    /\ [][ hasError =>
              \/ lastEv'.kind = "reload"
              \/ hasError' /\ View' = View /\ Display' = "fallback" ]_vars

\* C21 witness: after a render failure with the mobile menu open the window
\* was resized, and the fallback panel is still shown
C21_Witness ==
    /\ hasError /\ Display = "fallback"
    /\ lastEv.kind = "resize" /\ ~innerWidthNarrow
    /\ mobileMenuOpen /\ ~isDarkMode

\* C22: the view-state a page starts with is section = home, theme = dark,
\* menuOpen = false, and every reload (the reload action of the fallback
\* panel or a reload by the browser) returns to exactly this state, with the
\* app shown, whatever the state before the reload.
C22_ReloadRestoresDefaults ==
    /\ [](lastEv.kind \in {"load", "reload"} =>
            /\ View = [section |-> home, theme |-> "dark", menuOpen |-> FALSE]
            /\ toggleThemeSees /\ ~hamburgerSees
            /\ Display = "app" /\ mainPanels(activeSection) = {"home"})
    /\ [][ lastEv'.kind = "reload" =>
              /\ View' = [section |-> home, theme |-> "dark", menuOpen |-> FALSE]
              /\ ~hasError' /\ rootMounted' /\ elapsedTime' = 0 ]_vars

\* C22 witness: the page was reloaded from the fallback panel and shows the
\* home section in dark mode with the menu closed
C22_Witness ==
    /\ lastEv.kind = "reload" /\ instancesBefore = {}
    /\ appVersion = "boundary"
    /\ View = [section |-> home, theme |-> "dark", menuOpen |-> FALSE]
    /\ Display = "app"

\* C23: while frames keep coming with advancing elapsed time, every blinking
\* light is on infinitely often and off infinitely often, and the progress of
\* every pulse packet falls back towards the path start infinitely often; no
\* animated instance stays in one value.
C23_AnimationsKeepCycling ==
    /\ \A s \in Slots :
          light[s].mounted =>
              /\ []<>(light[s].rate # 0 /\ light[s].bright /\ light[s].opacity = 1000)
              /\ []<>(light[s].rate # 0 /\ ~light[s].bright /\ light[s].opacity = 150)
    /\ pulse.mounted => []<><<pulse'.progress < pulse.progress>>_vars

\* C23 witness: well into the run of frames a light is off and the packet
\* is in its fade-out, about to start again
C23_Witness ==
    /\ lastEv.kind = "frame" /\ elapsedTime > 20000
    /\ light[1].mounted /\ ~light[1].bright /\ light[1].opacity = 150
    /\ pulse.mounted /\ pulse.progress > 800

\* C24: in either theme the scene has exactly 3 racks, each with exactly 20
\* blades at y = -height/2 + 0.2 + 0.15*i for i = 0..19, all within the
\* rack's vertical extent of height 3.5, each blade with exactly 2 blinking
\* lights, and exactly 9 floor pulse paths, 3 per rack, starting at x offsets
\* -0.2, 0 and +0.2 around the rack's x and ending at the rack's x.
C24_SceneCounts ==
    uiMounted =>
        /\ Len(rackX) = 3
        /\ Cardinality({i \in Instances : i[1] = "rack"}) = 3
        /\ height = 3500
        /\ Len(blades) = 20
        /\ \A k \in 1..20 :
              /\ blades[k].y = -1750 + 200 + 150 * (k - 1)
              /\ blades[k].y - 50 >= -1750 /\ blades[k].y + 50 <= 1750
        /\ Cardinality(bladeLights) = 2
        /\ Len(paths) = 9
        /\ \A r \in 1..3 :
              LET x == <<0, -1250, 1250>>[r]
              IN  /\ x \in {rackX[j] : j \in 1..3}
                  /\ \A k \in 1..3 :
                        /\ paths[3 * (r - 1) + k].start.x = x + <<-200, 0, 200>>[k]
                        /\ paths[3 * (r - 1) + k].end.x = x

====
